---- MODULE Spec2Model ----
(***************************************************************************)
(* Model of gitlab/v4/objects/pipelines.py: the pipeline, pipeline         *)
(* variable, pipeline schedule and schedule variable bindings.             *)
(*                                                                         *)
(* One caller drives one manager/object of each kind.  Every operation is  *)
(* one action: the call, the HTTP request it issues (if any), the server's *)
(* response (an input) and the return or raise.  The generic mixins, the   *)
(* REST object base and the HTTP client are not part of pipelines.py; they *)
(* are modelled from the specification and marked as such below.           *)
(***************************************************************************)
EXTENDS Integers, Sequences, FiniteSets, TLC

VARIABLES
    project_id,                     \* id of the parent project
    pipeline_manager_path,          \* ProjectPipelineManager.path
    schedule_manager_path,          \* ProjectPipelineScheduleManager.path
    pipeline_variable_manager_path, \* ProjectPipelineVariableManager.path
    schedule_variable_manager_path, \* ProjectPipelineScheduleVariableManager.path
    pipeline,                       \* attributes of a ProjectPipeline object
    schedule,                       \* attributes of a ProjectPipelineSchedule object
    svar,                           \* attributes of a ProjectPipelineScheduleVariable object
    nOps,                           \* operations invoked so far
    nReqs,                          \* HTTP requests issued so far
    last                            \* record of the last operation

vars == <<project_id, pipeline_manager_path, schedule_manager_path,
          pipeline_variable_manager_path, schedule_variable_manager_path,
          pipeline, schedule, svar, nOps, nReqs, last>>

----------------------------------------------------------------------------
(* Bounds *)

MaxOps == 2

----------------------------------------------------------------------------
(* Python values: ints, strings, None, dicts and lists, tagged by type *)

None == [t |-> "none", v |-> 0]

IntV(n) == [t |-> "int", v |-> n]

StrV(s) == [t |-> "str", v |-> s]

DictV(d) == [t |-> "dict", v |-> d]

ListV(l) == [t |-> "list", v |-> l]

EmptyDict == [k \in {} |-> None]

Digits == <<"0", "1", "2", "3", "4", "5", "6", "7", "8", "9">>

RECURSIVE Str(_)
\* str(n) of a non-negative int: its decimal digits
Str(n) == IF n < 10 THEN Digits[n + 1]
          ELSE Str(n \div 10) \o Digits[(n % 10) + 1]

\* "%s" % val
Fmt(val) == CASE val.t = "int" -> Str(val.v)
              [] val.t = "str" -> val.v
              [] val.t = "none" -> "None"

----------------------------------------------------------------------------
(* REST object base (gitlab.base.RESTObject), modelled from the            *)
(* specification                                                           *)

\* getattr(obj, name) when the attribute exists
getattr(attrs, name) == attrs[name]

\* RESTObject.get_id(): the value of the configured identifier attribute
get_id(attrs, id_attr) ==
    IF id_attr \in DOMAIN attrs THEN getattr(attrs, id_attr) ELSE None

\* RESTObject._update_attrs(new_attrs): the attributes become the payload
update_attrs(attrs, new_attrs) == new_attrs

RECURSIVE compute_path(_, _, _)
\* RESTManager path: the template with each placeholder replaced by the
\* parent's attribute named in _from_parent_attrs
compute_path(template, from_parent_attrs, parent) ==
    IF template = <<>> THEN ""
    ELSE LET part == Head(template)
             text == IF part \in DOMAIN from_parent_attrs
                     THEN Fmt(getattr(parent, from_parent_attrs[part]))
                     ELSE part
         IN text \o compute_path(Tail(template), from_parent_attrs, parent)

----------------------------------------------------------------------------
(* HTTP client (gitlab.Gitlab) and error translation (gitlab.exceptions),  *)
(* modelled from the specification                                         *)

NoError == "none"

NoResponse == [status |-> 0, body |-> EmptyDict]

Is2xx(status) == 200 <= status /\ status < 300

\* One blocking request: the request issued, the error raised by the
\* transport (authentication failure, other non-2xx) and the decoded body
http_request(verb, path, params, data, resp) ==
    [reqs   |-> <<[verb |-> verb, path |-> path, params |-> params, data |-> data]>>,
     raised |-> IF resp.status = 401 THEN "GitlabAuthenticationError"
                ELSE IF Is2xx(resp.status) THEN NoError
                ELSE "GitlabHttpError",
     result |-> IF Is2xx(resp.status) THEN resp.body ELSE EmptyDict]

http_get(path, kwargs, resp) == http_request("GET", path, kwargs, EmptyDict, resp)

http_post(path, kwargs, post_data, resp) ==
    http_request("POST", path, kwargs, post_data, resp)

http_put(path, kwargs, post_data, resp) ==
    http_request("PUT", path, kwargs, post_data, resp)

http_delete(path, kwargs, resp) ==
    http_request("DELETE", path, kwargs, EmptyDict, resp)

\* @exc.on_http_error(error): a GitlabHttpError becomes `error`; any other
\* exception (authentication failure, local validation) passes through
on_http_error(error, raised) ==
    IF raised = "GitlabHttpError" THEN error ELSE raised

----------------------------------------------------------------------------
(* Generic capability mixins (gitlab.mixins), modelled from the            *)
(* specification.  A manager operation yields the requests it issued, the  *)
(* error it raised (NoError when it returned), the value it returned and   *)
(* the manager's path after the call.                                      *)

\* "%s/%s" % (path, id)
by_id_path(path, id) == path \o "/" \o Fmt(id)

\* required fields absent from data
missing_attrs(required, data) == required \ DOMAIN data

\* CreateMixin.create: validate the required fields, then POST the data
CreateMixin_create(self_path, create_attrs, data, path, kwargs, resp) ==
    IF missing_attrs(create_attrs.required, data) # {}
    THEN [reqs |-> <<>>, raised |-> "AttributeError", returned |-> None,
          path |-> self_path]
    ELSE LET r == http_post(path, kwargs, data, resp)
         IN [reqs     |-> r.reqs,
             raised   |-> on_http_error("GitlabCreateError", r.raised),
             returned |-> IF r.raised = NoError THEN DictV(r.result) ELSE None,
             path     |-> self_path]

\* UpdateMixin.update: validate the required fields, then PUT to path/id
UpdateMixin_update(self_path, update_attrs_, id, new_data, kwargs, resp) ==
    IF missing_attrs(update_attrs_.required, new_data) # {}
    THEN [reqs |-> <<>>, raised |-> "AttributeError", returned |-> None,
          path |-> self_path]
    ELSE LET r == http_put(by_id_path(self_path, id), kwargs, new_data, resp)
         IN [reqs     |-> r.reqs,
             raised   |-> on_http_error("GitlabUpdateError", r.raised),
             returned |-> IF r.raised = NoError THEN DictV(r.result) ELSE None,
             path     |-> self_path]

\* DeleteMixin.delete: DELETE path/id
DeleteMixin_delete(self_path, id, kwargs, resp) ==
    LET r == http_delete(by_id_path(self_path, id), kwargs, resp)
    IN [reqs     |-> r.reqs,
        raised   |-> on_http_error("GitlabDeleteError", r.raised),
        returned |-> None,
        path     |-> self_path]

\* GetMixin.get: GET path/id, a new object built from the payload
GetMixin_get(self_path, id, kwargs, resp) ==
    LET r == http_get(by_id_path(self_path, id), kwargs, resp)
    IN [reqs     |-> r.reqs,
        raised   |-> on_http_error("GitlabGetError", r.raised),
        returned |-> IF r.raised = NoError THEN DictV(r.result) ELSE None,
        path     |-> self_path]

\* ListMixin.list: GET path with the filters as query parameters
ListMixin_list(self_path, kwargs, resp) ==
    LET r == http_get(self_path, kwargs, resp)
    IN [reqs     |-> r.reqs,
        raised   |-> on_http_error("GitlabListError", r.raised),
        returned |-> IF r.raised = NoError THEN ListV(r.result) ELSE None,
        path     |-> self_path]

\* ObjectDeleteMixin.delete: the manager's delete with the object's id
ObjectDeleteMixin_delete(attrs, id_attr, manager_path, kwargs, resp) ==
    DeleteMixin_delete(manager_path, get_id(attrs, id_attr), kwargs, resp)

\* RESTObject._id_attr default
RESTObject_id_attr == "id"

----------------------------------------------------------------------------
(* ProjectPipeline                                                         *)

\* path = "%s/%s/cancel" % (self.manager.path, self.get_id())
cancel_path(manager_path, attrs) ==
    manager_path \o "/" \o Fmt(get_id(attrs, RESTObject_id_attr)) \o "/cancel"

\* path = "%s/%s/retry" % (self.manager.path, self.get_id())
retry_path(manager_path, attrs) ==
    manager_path \o "/" \o Fmt(get_id(attrs, RESTObject_id_attr)) \o "/retry"

cancel_Mutating(attrs, manager_path, kwargs, resp) ==
    LET r == http_post(cancel_path(manager_path, attrs), EmptyDict, EmptyDict, resp)
    IN [reqs     |-> r.reqs,
        raised   |-> on_http_error("GitlabPipelineCancelError", r.raised),
        returned |-> None,
        attrs    |-> IF r.raised = NoError
                     THEN [attrs EXCEPT !["status"] = StrV("canceled")]
                     ELSE attrs]

\* ProjectPipeline.cancel: POST without arguments; the response is dropped
cancel(attrs, manager_path, kwargs, resp) ==
    LET r == http_post(cancel_path(manager_path, attrs), EmptyDict, EmptyDict, resp)
    IN [reqs     |-> r.reqs,
        raised   |-> on_http_error("GitlabPipelineCancelError", r.raised),
        returned |-> None,
        attrs    |-> attrs]

\* ProjectPipeline.retry: POST without arguments; the response is dropped
retry(attrs, manager_path, kwargs, resp) ==
    LET r == http_post(retry_path(manager_path, attrs), EmptyDict, EmptyDict, resp)
    IN [reqs     |-> r.reqs,
        raised   |-> on_http_error("GitlabPipelineRetryError", r.raised),
        returned |-> None,
        attrs    |-> attrs]

----------------------------------------------------------------------------
(* ProjectPipelineManager                                                  *)

ProjectPipelineManager_path == <<"/projects/", "project_id", "/pipelines">>

ProjectPipelineManager_from_parent_attrs == [project_id |-> "id"]

ProjectPipelineManager_create_attrs_NoRequired ==
    [required |-> {}, optional |-> {}]

ProjectPipelineManager_create_attrs == [required |-> {"ref"}, optional |-> {}]

create_path_Plural(path) == path

\* path = self.path[:-1]
create_path(path) == SubSeq(path, 1, Len(path) - 1)

ProjectPipelineManager_create_Truncating(self_path, data, kwargs, resp) ==
    LET path == create_path(self_path)
        o == CreateMixin_create(self_path, ProjectPipelineManager_create_attrs,
                                data, path, kwargs, resp)
    IN [o EXCEPT !.path = path]

\* ProjectPipelineManager.create: CreateMixin.create on the shortened path
ProjectPipelineManager_create(self_path, data, kwargs, resp) ==
    LET path == create_path(self_path)
    IN CreateMixin_create(self_path, ProjectPipelineManager_create_attrs,
                          data, path, kwargs, resp)

----------------------------------------------------------------------------
(* ProjectPipelineVariable / ProjectPipelineVariableManager                *)

ProjectPipelineVariable_id_attr == "key"

ProjectPipelineVariableManager_path ==
    <<"/projects/", "project_id", "/pipelines/", "pipeline_id", "/variables">>

ProjectPipelineVariableManager_from_parent_attrs ==
    [project_id |-> "project_id", pipeline_id |-> "id"]

----------------------------------------------------------------------------
(* ProjectPipelineScheduleVariable / ProjectPipelineScheduleVariableManager *)

ProjectPipelineScheduleVariable_id_attr_Default == "id"

ProjectPipelineScheduleVariable_id_attr == "key"

ProjectPipelineScheduleVariableManager_path ==
    <<"/projects/", "project_id", "/pipeline_schedules/",
      "pipeline_schedule_id", "/variables">>

ProjectPipelineScheduleVariableManager_from_parent_attrs ==
    [project_id |-> "project_id", pipeline_schedule_id |-> "id"]

ProjectPipelineScheduleVariableManager_create_attrs ==
    [required |-> {"key", "value"}, optional |-> {}]

ProjectPipelineScheduleVariableManager_update_attrs ==
    [required |-> {"key", "value"}, optional |-> {}]

----------------------------------------------------------------------------
(* ProjectPipelineSchedule                                                 *)

\* path = "%s/%s/take_ownership" % (self.manager.path, self.get_id())
take_ownership_path(manager_path, attrs) ==
    manager_path \o "/" \o Fmt(get_id(attrs, RESTObject_id_attr))
        \o "/take_ownership"

\* path = "%s/%s/play" % (self.manager.path, self.get_id())
play_path(manager_path, attrs) ==
    manager_path \o "/" \o Fmt(get_id(attrs, RESTObject_id_attr)) \o "/play"

take_ownership_NoRefresh(attrs, manager_path, kwargs, resp) ==
    LET r == http_post(take_ownership_path(manager_path, attrs), kwargs,
                       EmptyDict, resp)
    IN [reqs     |-> r.reqs,
        raised   |-> on_http_error("GitlabOwnershipError", r.raised),
        returned |-> None,
        attrs    |-> attrs]

\* ProjectPipelineSchedule.take_ownership: POST, then _update_attrs with the
\* payload; a raise in http_post leaves before _update_attrs
take_ownership(attrs, manager_path, kwargs, resp) ==
    LET r == http_post(take_ownership_path(manager_path, attrs), kwargs,
                       EmptyDict, resp)
    IN [reqs     |-> r.reqs,
        raised   |-> on_http_error("GitlabOwnershipError", r.raised),
        returned |-> None,
        attrs    |-> IF r.raised = NoError
                     THEN update_attrs(attrs, r.result)
                     ELSE attrs]

play_Retrying(attrs, manager_path, kwargs, resp) ==
    LET r == http_post(play_path(manager_path, attrs), kwargs, EmptyDict, resp)
    IN [reqs     |-> IF r.raised = NoError THEN r.reqs ELSE r.reqs \o r.reqs,
        raised   |-> on_http_error("GitlabPipelinePlayError", r.raised),
        returned |-> IF r.raised = NoError THEN DictV(r.result) ELSE None,
        attrs    |-> IF r.raised = NoError
                     THEN update_attrs(attrs, r.result)
                     ELSE attrs]

play_UpdateAlways(attrs, manager_path, kwargs, resp) ==
    LET r == http_post(play_path(manager_path, attrs), kwargs, EmptyDict, resp)
    IN [reqs     |-> r.reqs,
        raised   |-> on_http_error("GitlabPipelinePlayError", r.raised),
        returned |-> IF r.raised = NoError THEN DictV(r.result) ELSE None,
        attrs    |-> update_attrs(attrs, resp.body)]

\* ProjectPipelineSchedule.play: POST, _update_attrs with the payload, and
\* the payload returned
play(attrs, manager_path, kwargs, resp) ==
    LET r == http_post(play_path(manager_path, attrs), kwargs, EmptyDict, resp)
    IN [reqs     |-> r.reqs,
        raised   |-> on_http_error("GitlabPipelinePlayError", r.raised),
        returned |-> IF r.raised = NoError THEN DictV(r.result) ELSE None,
        attrs    |-> IF r.raised = NoError
                     THEN update_attrs(attrs, r.result)
                     ELSE attrs]

----------------------------------------------------------------------------
(* ProjectPipelineScheduleManager                                          *)

ProjectPipelineScheduleManager_path ==
    <<"/projects/", "project_id", "/pipeline_schedules">>

ProjectPipelineScheduleManager_from_parent_attrs == [project_id |-> "id"]

ProjectPipelineScheduleManager_create_attrs ==
    [required |-> {"description", "ref", "cron"},
     optional |-> {"cron_timezone", "active"}]

ProjectPipelineScheduleManager_update_attrs_Strict ==
    [required |-> {"description"},
     optional |-> {"ref", "cron", "cron_timezone", "active"}]

ProjectPipelineScheduleManager_update_attrs ==
    [required |-> {},
     optional |-> {"description", "ref", "cron", "cron_timezone", "active"}]

----------------------------------------------------------------------------
(* Inputs: parent ids, call arguments and server responses                 *)

BoolV(b) == [t |-> "bool", v |-> b]

ProjectIds == {1, 27}

PipelineIds == {8, 46}

ScheduleIds == {13, 14}

\* **kwargs: none, or sudo
Kwargs == {EmptyDict, [sudo |-> StrV("root")]}

\* list filters given as keyword arguments
ListFilters == {EmptyDict, [status |-> StrV("running")]}

FieldValue ==
    [ref |-> StrV("main"), variables |-> StrV("K=V"),
     description |-> StrV("nightly"), cron |-> StrV("0 1 * * *"),
     cron_timezone |-> StrV("UTC"), active |-> BoolV(TRUE),
     key |-> StrV("TOKEN"), value |-> StrV("s3cret")]

\* the dict holding exactly the given fields
Data(fields) == [f \in fields |-> FieldValue[f]]

PipelineData == {Data(S) : S \in SUBSET {"ref", "variables"}}

ScheduleFields == {"description", "ref", "cron", "cron_timezone", "active"}

ScheduleData == {Data(S) : S \in SUBSET ScheduleFields}

VariableData == {Data(S) : S \in SUBSET {"key", "value"}}

\* a pipeline as the server returns it on creation
PipelineBody(id) ==
    [id |-> IntV(id), status |-> StrV("pending"), ref |-> StrV("main")]

\* a pipeline as the server returns it later
FetchedBody(id) ==
    [id |-> IntV(id), status |-> StrV("success"), ref |-> StrV("main")]

ScheduleBody(id) ==
    [id |-> IntV(id), description |-> StrV("nightly"), owner |-> StrV("bob")]

MessageBody(text) == [message |-> StrV(text)]

VariableBodies ==
    {[key |-> StrV("ENV"), value |-> StrV("staging")],
     [id |-> IntV(7), key |-> StrV("TOKEN"), value |-> StrV("s3cret")]}

Ok(status, bodies) == {[status |-> status, body |-> b] : b \in bodies}

\* rejected requests: authentication failure and another non-2xx status
Failures ==
    {[status |-> 401, body |-> MessageBody("401 Unauthorized")],
     [status |-> 404, body |-> MessageBody("404 Not found")]}

PipelineResponses ==
    Ok(201, {PipelineBody(id) : id \in PipelineIds}) \cup Failures

PipelineListResponses ==
    Ok(200, {<<>>, <<FetchedBody(8), FetchedBody(46)>>}) \cup Failures

PipelineActionResponses == Ok(200, {FetchedBody(8)}) \cup Failures

NoContentResponses == Ok(204, {EmptyDict}) \cup Failures

VariableListResponses ==
    Ok(200, {<<>>,
             <<[key |-> StrV("ENV"), value |-> StrV("staging")],
               [id |-> IntV(7), key |-> StrV("TOKEN"), value |-> StrV("s3cret")]>>})
        \cup Failures

ScheduleResponses == Ok(201, {ScheduleBody(14)}) \cup Failures

ScheduleActionResponses ==
    Ok(201, {ScheduleBody(13), MessageBody("201 Created")}) \cup Failures

VariableResponses == Ok(201, VariableBodies) \cup Failures

\* the server answers only a request that was sent: a call whose data fails
\* the local validation draws no response
Served(required, data, responses) ==
    IF missing_attrs(required, data) = {} THEN responses ELSE {NoResponse}

----------------------------------------------------------------------------
(* Construction                                                            *)

\* the parent project, as seen by its managers
Project(id) == [id |-> IntV(id)]

\* a child object as parent of its own managers: its attributes, and the
\* parent attributes of the manager it came from
AsParent(attrs, pid) ==
    [n \in DOMAIN attrs \cup {"project_id"} |->
        IF n \in DOMAIN attrs THEN attrs[n] ELSE IntV(pid)]

PipelineVariablesPath(attrs, pid) ==
    compute_path(ProjectPipelineVariableManager_path,
                 ProjectPipelineVariableManager_from_parent_attrs,
                 AsParent(attrs, pid))

ScheduleVariablesPath(attrs, pid) ==
    compute_path(ProjectPipelineScheduleVariableManager_path,
                 ProjectPipelineScheduleVariableManager_from_parent_attrs,
                 AsParent(attrs, pid))

Init ==
    /\ project_id \in ProjectIds
    /\ pipeline_manager_path =
           compute_path(ProjectPipelineManager_path,
                        ProjectPipelineManager_from_parent_attrs,
                        Project(project_id))
    /\ schedule_manager_path =
           compute_path(ProjectPipelineScheduleManager_path,
                        ProjectPipelineScheduleManager_from_parent_attrs,
                        Project(project_id))
    /\ pipeline = [id |-> IntV(8), status |-> StrV("running"), ref |-> StrV("main")]
    /\ schedule = [id |-> IntV(13), description |-> StrV("nightly"),
                   owner |-> StrV("alice")]
    /\ svar = [key |-> StrV("ENV"), value |-> StrV("prod")]
    /\ pipeline_variable_manager_path = PipelineVariablesPath(pipeline, project_id)
    /\ schedule_variable_manager_path = ScheduleVariablesPath(schedule, project_id)
    /\ nOps = 0
    /\ nReqs = 0
    /\ last = [op |-> "init", id |-> None, data |-> EmptyDict, kwargs |-> EmptyDict,
               response |-> NoResponse, reqs |-> <<>>, raised |-> NoError,
               returned |-> None]

----------------------------------------------------------------------------
(* Operations                                                              *)

\* the call returns or raises: what it was given, what it issued and got
Return(op, id, data, kwargs, resp, o) ==
    /\ last' = [op |-> op, id |-> id, data |-> data, kwargs |-> kwargs,
                response |-> IF o.reqs = <<>> THEN NoResponse ELSE resp,
                reqs |-> o.reqs, raised |-> o.raised, returned |-> o.returned]
    /\ nOps' = nOps + 1
    /\ nReqs' = nReqs + Len(o.reqs)

\* project.pipelines.create(data, **kwargs)
PipelineCreate ==
    /\ nOps < MaxOps
    /\ \E data \in PipelineData, kwargs \in Kwargs :
       \E resp \in Served(ProjectPipelineManager_create_attrs.required, data,
                         PipelineResponses) :
         LET o == ProjectPipelineManager_create(pipeline_manager_path, data,
                                                kwargs, resp)
             created == o.raised = NoError
         IN /\ pipeline_manager_path' = o.path
            /\ pipeline' = IF created THEN o.returned.v ELSE pipeline
            /\ pipeline_variable_manager_path' =
                   IF created THEN PipelineVariablesPath(o.returned.v, project_id)
                   ELSE pipeline_variable_manager_path
            /\ Return("pipeline.create", None, data, kwargs, resp, o)
    /\ UNCHANGED <<project_id, schedule_manager_path,
                   schedule_variable_manager_path, schedule, svar>>

\* project.pipelines.list(**filters)
PipelineList ==
    /\ nOps < MaxOps
    /\ \E kwargs \in ListFilters, resp \in PipelineListResponses :
         LET o == ListMixin_list(pipeline_manager_path, kwargs, resp)
         IN /\ pipeline_manager_path' = o.path
            /\ Return("pipeline.list", None, EmptyDict, kwargs, resp, o)
    /\ UNCHANGED <<project_id, schedule_manager_path,
                   pipeline_variable_manager_path,
                   schedule_variable_manager_path, pipeline, schedule, svar>>

\* pipeline = project.pipelines.get(id)
PipelineGet ==
    /\ nOps < MaxOps
    /\ \E id \in PipelineIds :
       \E resp \in Ok(200, {FetchedBody(id)}) \cup Failures :
         LET o == GetMixin_get(pipeline_manager_path, IntV(id), EmptyDict, resp)
             got == o.raised = NoError
         IN /\ pipeline_manager_path' = o.path
            /\ pipeline' = IF got THEN o.returned.v ELSE pipeline
            /\ pipeline_variable_manager_path' =
                   IF got THEN PipelineVariablesPath(o.returned.v, project_id)
                   ELSE pipeline_variable_manager_path
            /\ Return("pipeline.get", IntV(id), EmptyDict, EmptyDict, resp, o)
    /\ UNCHANGED <<project_id, schedule_manager_path,
                   schedule_variable_manager_path, schedule, svar>>

\* project.pipelines.delete(id, **kwargs)
PipelineDelete ==
    /\ nOps < MaxOps
    /\ \E id \in PipelineIds, kwargs \in Kwargs, resp \in NoContentResponses :
         LET o == DeleteMixin_delete(pipeline_manager_path, IntV(id), kwargs, resp)
         IN /\ pipeline_manager_path' = o.path
            /\ Return("pipeline.delete", IntV(id), EmptyDict, kwargs, resp, o)
    /\ UNCHANGED <<project_id, schedule_manager_path,
                   pipeline_variable_manager_path,
                   schedule_variable_manager_path, pipeline, schedule, svar>>

\* pipeline.cancel(**kwargs)
PipelineCancel ==
    /\ nOps < MaxOps
    /\ \E kwargs \in Kwargs, resp \in PipelineActionResponses :
         LET o == cancel(pipeline, pipeline_manager_path, kwargs, resp)
         IN /\ pipeline' = o.attrs
            /\ Return("pipeline.cancel", None, EmptyDict, kwargs, resp, o)
    /\ UNCHANGED <<project_id, pipeline_manager_path, schedule_manager_path,
                   pipeline_variable_manager_path,
                   schedule_variable_manager_path, schedule, svar>>

\* pipeline.retry(**kwargs)
PipelineRetry ==
    /\ nOps < MaxOps
    /\ \E kwargs \in Kwargs, resp \in PipelineActionResponses :
         LET o == retry(pipeline, pipeline_manager_path, kwargs, resp)
         IN /\ pipeline' = o.attrs
            /\ Return("pipeline.retry", None, EmptyDict, kwargs, resp, o)
    /\ UNCHANGED <<project_id, pipeline_manager_path, schedule_manager_path,
                   pipeline_variable_manager_path,
                   schedule_variable_manager_path, schedule, svar>>

\* pipeline.variables.list()
PipelineVariableList ==
    /\ nOps < MaxOps
    /\ \E resp \in VariableListResponses :
         LET o == ListMixin_list(pipeline_variable_manager_path, EmptyDict, resp)
         IN /\ pipeline_variable_manager_path' = o.path
            /\ Return("pipeline_variable.list", None, EmptyDict, EmptyDict, resp, o)
    /\ UNCHANGED <<project_id, pipeline_manager_path, schedule_manager_path,
                   schedule_variable_manager_path, pipeline, schedule, svar>>

\* project.pipelineschedules.create(data)
ScheduleCreate ==
    /\ nOps < MaxOps
    /\ \E data \in ScheduleData, kwargs \in {EmptyDict} :
       \E resp \in Served(ProjectPipelineScheduleManager_create_attrs.required,
                         data, ScheduleResponses) :
         LET o == CreateMixin_create(schedule_manager_path,
                                     ProjectPipelineScheduleManager_create_attrs,
                                     data, schedule_manager_path, kwargs, resp)
             created == o.raised = NoError
         IN /\ schedule_manager_path' = o.path
            /\ schedule' = IF created THEN o.returned.v ELSE schedule
            /\ schedule_variable_manager_path' =
                   IF created THEN ScheduleVariablesPath(o.returned.v, project_id)
                   ELSE schedule_variable_manager_path
            /\ Return("schedule.create", None, data, kwargs, resp, o)
    /\ UNCHANGED <<project_id, pipeline_manager_path,
                   pipeline_variable_manager_path, pipeline, svar>>

\* project.pipelineschedules.update(id, new_data)
ScheduleUpdate ==
    /\ nOps < MaxOps
    /\ \E id \in ScheduleIds, data \in ScheduleData, kwargs \in {EmptyDict} :
       \E resp \in Served(ProjectPipelineScheduleManager_update_attrs.required,
                         data, Ok(200, {ScheduleBody(id)}) \cup Failures) :
         LET o == UpdateMixin_update(schedule_manager_path,
                                     ProjectPipelineScheduleManager_update_attrs,
                                     IntV(id), data, kwargs, resp)
         IN /\ schedule_manager_path' = o.path
            /\ Return("schedule.update", IntV(id), data, kwargs, resp, o)
    /\ UNCHANGED <<project_id, pipeline_manager_path,
                   pipeline_variable_manager_path,
                   schedule_variable_manager_path, pipeline, schedule, svar>>

\* schedule.take_ownership(**kwargs)
ScheduleTakeOwnership ==
    /\ nOps < MaxOps
    /\ \E kwargs \in Kwargs, resp \in ScheduleActionResponses :
         LET o == take_ownership(schedule, schedule_manager_path, kwargs, resp)
         IN /\ schedule' = o.attrs
            /\ Return("schedule.take_ownership", None, EmptyDict, kwargs, resp, o)
    /\ UNCHANGED <<project_id, pipeline_manager_path, schedule_manager_path,
                   pipeline_variable_manager_path,
                   schedule_variable_manager_path, pipeline, svar>>

\* schedule.play(**kwargs)
SchedulePlay ==
    /\ nOps < MaxOps
    /\ \E kwargs \in Kwargs, resp \in ScheduleActionResponses :
         LET o == play(schedule, schedule_manager_path, kwargs, resp)
         IN /\ schedule' = o.attrs
            /\ Return("schedule.play", None, EmptyDict, kwargs, resp, o)
    /\ UNCHANGED <<project_id, pipeline_manager_path, schedule_manager_path,
                   pipeline_variable_manager_path,
                   schedule_variable_manager_path, pipeline, svar>>

\* svar = schedule.variables.create(data, **kwargs)
ScheduleVariableCreate ==
    /\ nOps < MaxOps
    /\ \E data \in VariableData, kwargs \in Kwargs :
       \E resp \in Served(ProjectPipelineScheduleVariableManager_create_attrs.required,
                         data, VariableResponses) :
         LET o == CreateMixin_create(schedule_variable_manager_path,
                                     ProjectPipelineScheduleVariableManager_create_attrs,
                                     data, schedule_variable_manager_path,
                                     kwargs, resp)
         IN /\ schedule_variable_manager_path' = o.path
            /\ svar' = IF o.raised = NoError THEN o.returned.v ELSE svar
            /\ Return("schedule_variable.create", None, data, kwargs, resp, o)
    /\ UNCHANGED <<project_id, pipeline_manager_path, schedule_manager_path,
                   pipeline_variable_manager_path, pipeline, schedule>>

\* schedule.variables.update(svar.get_id(), new_data, **kwargs)
ScheduleVariableUpdate ==
    /\ nOps < MaxOps
    /\ \E data \in VariableData, kwargs \in Kwargs :
       \E resp \in Served(ProjectPipelineScheduleVariableManager_update_attrs.required,
                         data, VariableResponses) :
         LET o == UpdateMixin_update(schedule_variable_manager_path,
                                     ProjectPipelineScheduleVariableManager_update_attrs,
                                     get_id(svar, ProjectPipelineScheduleVariable_id_attr),
                                     data, kwargs, resp)
         IN /\ schedule_variable_manager_path' = o.path
            /\ Return("schedule_variable.update",
                      get_id(svar, ProjectPipelineScheduleVariable_id_attr),
                      data, kwargs, resp, o)
    /\ UNCHANGED <<project_id, pipeline_manager_path, schedule_manager_path,
                   pipeline_variable_manager_path, pipeline, schedule, svar>>

\* svar.delete(**kwargs)
ScheduleVariableDelete ==
    /\ nOps < MaxOps
    /\ \E kwargs \in Kwargs, resp \in NoContentResponses :
         LET o == ObjectDeleteMixin_delete(svar,
                                           ProjectPipelineScheduleVariable_id_attr,
                                           schedule_variable_manager_path,
                                           kwargs, resp)
         IN /\ schedule_variable_manager_path' = o.path
            /\ Return("schedule_variable.delete",
                      get_id(svar, ProjectPipelineScheduleVariable_id_attr),
                      EmptyDict, kwargs, resp, o)
    /\ UNCHANGED <<project_id, pipeline_manager_path, schedule_manager_path,
                   pipeline_variable_manager_path, pipeline, schedule, svar>>

Next ==
    \/ PipelineCreate
    \/ PipelineList
    \/ PipelineGet
    \/ PipelineDelete
    \/ PipelineCancel
    \/ PipelineRetry
    \/ PipelineVariableList
    \/ ScheduleCreate
    \/ ScheduleUpdate
    \/ ScheduleTakeOwnership
    \/ SchedulePlay
    \/ ScheduleVariableCreate
    \/ ScheduleVariableUpdate
    \/ ScheduleVariableDelete

Spec == Init /\ [][Next]_vars

----------------------------------------------------------------------------
(* Properties                                                              *)

\* the decimal text of the ids used, written out
Decimal(n) == CASE n = 1 -> "1" [] n = 7 -> "7" [] n = 8 -> "8"
                [] n = 13 -> "13" [] n = 14 -> "14" [] n = 27 -> "27"
                [] n = 46 -> "46"

PluralPipelinesPath == "/projects/" \o Decimal(project_id) \o "/pipelines"

SingularPipelinePath == "/projects/" \o Decimal(project_id) \o "/pipeline"

SchedulesPath == "/projects/" \o Decimal(project_id) \o "/pipeline_schedules"

Sudo == [sudo |-> StrV("root")]

\* C1: a create or update call whose data lacks a field of the manager's
\* required set (pipeline create: ref; schedule create: description, ref,
\* cron; schedule-variable create and update: key, value) fails with the
\* local validation error and has issued no HTTP request.
C1_RequiredEnforcedLocally ==
    LET required ==
            CASE last.op = "pipeline.create" -> {"ref"}
              [] last.op = "schedule.create" -> {"description", "ref", "cron"}
              [] last.op \in {"schedule_variable.create",
                              "schedule_variable.update"} -> {"key", "value"}
              [] OTHER -> {}
    IN (required \ DOMAIN last.data # {}) =>
           /\ last.raised = "AttributeError"
           /\ last.reqs = <<>>
           /\ last.response = NoResponse

\* C1 witness: a pipeline create without ref has failed locally, after an
\* earlier call that did issue a request.
C1_Witness ==
    /\ last.op = "pipeline.create"
    /\ "ref" \notin DOMAIN last.data
    /\ last.kwargs = Sudo
    /\ last.raised = "AttributeError"
    /\ nOps = 2
    /\ nReqs = 1

\* C2: pipeline create POSTs to the manager's path without its final
\* character (/projects/N/pipeline), for every project id, while list, get
\* and delete use the plural path unmodified.
C2_CreatePathSingular ==
    /\ (last.op = "pipeline.create" /\ last.reqs # <<>>) =>
           /\ Len(last.reqs) = 1
           /\ last.reqs[1].verb = "POST"
           /\ last.reqs[1].path = SingularPipelinePath
           /\ last.reqs[1].path \o "s" = pipeline_manager_path
    /\ last.op = "pipeline.list" =>
           /\ last.reqs[1].verb = "GET"
           /\ last.reqs[1].path = PluralPipelinesPath
    /\ last.op = "pipeline.get" =>
           /\ last.reqs[1].verb = "GET"
           /\ last.reqs[1].path = PluralPipelinesPath \o "/" \o Decimal(last.id.v)
    /\ last.op = "pipeline.delete" =>
           /\ last.reqs[1].verb = "DELETE"
           /\ last.reqs[1].path = PluralPipelinesPath \o "/" \o Decimal(last.id.v)

\* C2 witness: a create on project 27 went to /projects/27/pipeline.
C2_Witness ==
    /\ last.op = "pipeline.create"
    /\ project_id = 27
    /\ Len(last.reqs) = 1
    /\ last.reqs[1].path = "/projects/27/pipeline"
    /\ last.raised = NoError

\* C3 as stated: cancel and retry POST to {manager path}/{id}/cancel|retry,
\* raise their own error kind on every non-2xx response, and leave the
\* pipeline's attributes unchanged.
C3_Original ==
    [][last'.op \in {"pipeline.cancel", "pipeline.retry"} =>
        LET cancelling == last'.op = "pipeline.cancel"
        IN /\ Len(last'.reqs) = 1
           /\ last'.reqs[1].verb = "POST"
           /\ last'.reqs[1].path =
                  PluralPipelinesPath \o "/" \o Decimal(pipeline.id.v)
                      \o (IF cancelling THEN "/cancel" ELSE "/retry")
           /\ last'.response.status \notin 200..299 =>
                  last'.raised = IF cancelling THEN "GitlabPipelineCancelError"
                                 ELSE "GitlabPipelineRetryError"
           /\ pipeline' = pipeline]_vars

\* C3 amended: cancel and retry POST to {manager path}/{id}/cancel|retry;
\* on a non-2xx response they raise their own error kind, except that an
\* authentication failure (401) raises the authentication error; in every
\* case the pipeline's attributes, its id included, are unchanged.
C3_CancelRetry ==
    [][last'.op \in {"pipeline.cancel", "pipeline.retry"} =>
        LET cancelling == last'.op = "pipeline.cancel"
            status == last'.response.status
        IN /\ Len(last'.reqs) = 1
           /\ last'.reqs[1].verb = "POST"
           /\ last'.reqs[1].path =
                  PluralPipelinesPath \o "/" \o Decimal(pipeline.id.v)
                      \o (IF cancelling THEN "/cancel" ELSE "/retry")
           /\ status \in 200..299 => last'.raised = NoError
           /\ status = 401 => last'.raised = "GitlabAuthenticationError"
           /\ (status \notin 200..299 /\ status # 401) =>
                  last'.raised = IF cancelling THEN "GitlabPipelineCancelError"
                                 ELSE "GitlabPipelineRetryError"
           /\ pipeline' = pipeline]_vars

\* C3 witness: a retry of pipeline 46 was rejected with 404 and raised the
\* retry error.
C3_Witness ==
    /\ last.op = "pipeline.retry"
    /\ last.response.status = 404
    /\ last.raised = "GitlabPipelineRetryError"
    /\ pipeline.id = IntV(46)
    /\ last.reqs[1].path = PluralPipelinesPath \o "/46/retry"

\* C4: after a successful take_ownership or play, every local attribute of
\* the schedule has the value of the payload's field of that name; play
\* returns the payload and take_ownership returns nothing.
C4_ScheduleRefreshed ==
    (last.op \in {"schedule.take_ownership", "schedule.play"}
        /\ last.raised = NoError) =>
        LET body == last.response.body
        IN /\ DOMAIN schedule = DOMAIN body
           /\ \A f \in DOMAIN schedule : schedule[f] = body[f]
           /\ last.returned = IF last.op = "schedule.play" THEN DictV(body)
                              ELSE None

\* C4 witness: take_ownership succeeded and the owner changed to the
\* payload's.
C4_Witness ==
    /\ last.op = "schedule.take_ownership"
    /\ last.raised = NoError
    /\ "owner" \in DOMAIN schedule
    /\ schedule.owner = StrV("bob")
    /\ last.returned = None

\* C5: the request issued by pipeline create, cancel, retry, take_ownership
\* and play carries exactly the extra keyword parameters of the call.
C5_Original ==
    (last.op \in {"pipeline.create", "pipeline.cancel", "pipeline.retry",
                  "schedule.take_ownership", "schedule.play"}
        /\ last.reqs # <<>>) =>
        last.reqs[1].params = last.kwargs

\* C6: the identifier of a schedule variable or pipeline variable is the
\* value of its key attribute, and updating or deleting a schedule variable
\* addresses {manager path}/{key value}, also when the object has an id
\* attribute.
C6_KeyIsIdentifier ==
    /\ get_id(svar, ProjectPipelineScheduleVariable_id_attr) = svar.key
    /\ (last.op \in {"schedule_variable.update", "schedule_variable.delete"}
           /\ last.reqs # <<>>) =>
           /\ last.reqs[1].verb =
                  (IF last.op = "schedule_variable.update" THEN "PUT" ELSE "DELETE")
           /\ last.reqs[1].path =
                  schedule_variable_manager_path \o "/" \o svar.key.v
    /\ (last.op = "pipeline_variable.list" /\ last.raised = NoError) =>
           \A i \in 1..Len(last.returned.v) :
               get_id(last.returned.v[i], ProjectPipelineVariable_id_attr)
                   = last.returned.v[i].key

\* C6 witness: a schedule variable that carries id 7 and key TOKEN was
\* deleted at .../variables/TOKEN.
C6_Witness ==
    /\ last.op = "schedule_variable.delete"
    /\ "id" \in DOMAIN svar
    /\ svar.id = IntV(7)
    /\ project_id = 1
    /\ last.reqs[1].path = "/projects/1/pipeline_schedules/13/variables/TOKEN"

\* C7: a schedule update is never rejected locally, whatever subset of
\* {description, ref, cron, cron_timezone, active} it supplies, the empty
\* one included; it issues one PUT to {manager path}/{id} whose body is the
\* data supplied.
C7_ScheduleUpdateNoRequired ==
    last.op = "schedule.update" =>
        /\ DOMAIN last.data \subseteq
               {"description", "ref", "cron", "cron_timezone", "active"}
        /\ last.raised # "AttributeError"
        /\ Len(last.reqs) = 1
        /\ last.reqs[1].verb = "PUT"
        /\ last.reqs[1].path = SchedulesPath \o "/" \o Decimal(last.id.v)
        /\ last.reqs[1].data = last.data

\* C7 witness: an update with no field was sent with an empty body and
\* succeeded.
C7_Witness ==
    /\ last.op = "schedule.update"
    /\ last.data = EmptyDict
    /\ last.raised = NoError
    /\ last.reqs[1].data = EmptyDict
    /\ last.reqs[1].path = SchedulesPath \o "/14"

\* C8 as stated: the number of HTTP requests issued equals the number of
\* operations invoked.
C8_Original == nReqs = nOps

\* C8 amended: every operation issues at most one HTTP request before it
\* returns: exactly one when its data passes the local validation, none when
\* a required field is missing; requests are issued only inside an
\* operation, and a rejected request is not sent again.
C8_OneRequestPerValidatedCall ==
    [][/\ nOps' = nOps + 1
       /\ nReqs' = nReqs + Len(last'.reqs)
       /\ Len(last'.reqs) <= 1
       /\ Len(last'.reqs) = 1 <=> last'.raised # "AttributeError"
       /\ last'.reqs = <<>> <=> last'.response = NoResponse]_vars

\* C8 witness: two operations and one request: the first call was rejected
\* locally, the second is a play the server rejected, sent once.
C8_Witness ==
    /\ nOps = 2
    /\ nReqs = 1
    /\ last.op = "schedule.play"
    /\ last.raised = "GitlabPipelinePlayError"

\* C9 as stated: a take_ownership or play rejected with any non-2xx status
\* raises its own error kind and leaves the schedule's attributes as they
\* were.
C9_Original ==
    [][(last'.op \in {"schedule.take_ownership", "schedule.play"}
          /\ last'.response.status \notin 200..299) =>
        /\ last'.raised = IF last'.op = "schedule.play"
                          THEN "GitlabPipelinePlayError"
                          ELSE "GitlabOwnershipError"
        /\ schedule' = schedule]_vars

\* C9 amended: a take_ownership or play rejected with a non-2xx status
\* raises its own error kind, except that an authentication failure (401)
\* raises the authentication error; in both cases the schedule's attributes
\* are what they were before the call.
C9_RejectedLeavesSchedule ==
    [][(last'.op \in {"schedule.take_ownership", "schedule.play"}
          /\ last'.response.status \notin 200..299) =>
        /\ last'.raised =
               IF last'.response.status = 401 THEN "GitlabAuthenticationError"
               ELSE IF last'.op = "schedule.play" THEN "GitlabPipelinePlayError"
               ELSE "GitlabOwnershipError"
        /\ last'.returned = None
        /\ schedule' = schedule]_vars

\* C9 witness: a play was rejected with 404 after an earlier take_ownership
\* had refreshed the schedule, which still holds the refreshed attributes.
C9_Witness ==
    /\ last.op = "schedule.play"
    /\ last.response.status = 404
    /\ last.raised = "GitlabPipelinePlayError"
    /\ schedule = ScheduleBody(13)

\* C10: the pipeline manager's path stays /projects/{project_id}/pipelines
\* after any sequence of operations, so every create targets the singular
\* path and cancel/retry target /projects/{project_id}/pipelines/{id}/...
C10_ManagerPathFixed ==
    /\ pipeline_manager_path = PluralPipelinesPath
    /\ (last.op = "pipeline.create" /\ last.reqs # <<>>) =>
           last.reqs[1].path = SingularPipelinePath
    /\ last.op \in {"pipeline.cancel", "pipeline.retry"} =>
           last.reqs[1].path =
               PluralPipelinesPath \o "/" \o Decimal(pipeline.id.v)
                   \o (IF last.op = "pipeline.cancel" THEN "/cancel" ELSE "/retry")

\* C10 witness: pipeline 46 was created and then cancelled at
\* /projects/27/pipelines/46/cancel.
C10_Witness ==
    /\ nOps = 2
    /\ last.op = "pipeline.cancel"
    /\ pipeline = PipelineBody(46)
    /\ last.reqs[1].path = "/projects/27/pipelines/46/cancel"
    /\ pipeline_manager_path = "/projects/27/pipelines"

====
